---- MODULE Spec2Model ----
(***************************************************************************)
(* Job orchestration of yt-text (src/src/services/transcription.py) with   *)
(* its cache (src/src/services/cache.py) and the request-scoped service    *)
(* instances of src/src/core/deps.py.                                      *)
(*                                                                         *)
(* Granularity: asyncio runs the code between two suspending awaits        *)
(* atomically.  An action is one such block together with the database     *)
(* write of the commit that ends it.  Every pipeline run and every         *)
(* retry_job request works on its own session copy of the job row; a       *)
(* commit writes only the columns whose value differs from the copy as     *)
(* loaded or last committed (SQLAlchemy unit of work, expire_on_commit =   *)
(* False, src/src/api/app.py:71-73).                                       *)
(***************************************************************************)
EXTENDS Integers, Sequences, FiniteSets, TLC

\* ---------------------------------------------------------------- bounds
MaxJobs == 2
MaxSvc == 2
MaxRetries == 2
MaxFaults == 2
\* every run is scheduled by one create_job or one retry_job
MaxRuns == MaxJobs + MaxRetries

\* ------------------------------------------------------- program constants
DefaultMaxConcurrentJobs == 3

\* Optional[T]: None is the empty tuple, a value v is <<v>>.
None == <<>>
Some(v) == <<v>>

\* datetime.utcnow() and the measured processing time, abstracted.
Now == "t"
ElapsedMs == {5}

\* Inputs.  A url is a tuple of tokens, a model a tuple of tokens.
UVideo == <<"https://", "x", "/video">>
UOther == <<"https://", "y", "/a">>
UBad == <<"video">>
URLs == {UVideo, UOther, UBad}
Models == {<<"base">>}
Texts == {"transcript"}
Schemes == {"https://", "http://", "ftp://"}
url_blocklist == {}
url_allowlist == {}

MaxConcurrentJobsValues == {1, DefaultMaxConcurrentJobs}
InitAvailable == {{}, {"whisper_cpp", "openai"}}

VARIABLES
  settings,   \* Settings(): max_concurrent_jobs, cache_enabled
  available,  \* the backends whose is_available() answers true
  db,         \* table transcription_jobs: sequence of rows, job id = index
  cache,      \* the diskcache store at settings.cache_dir: key -> entry
  running,    \* _running_jobs of every TranscriptionService instance
  runs,       \* background tasks created by asyncio.create_task
  retries,    \* retry_job requests suspended at their commit
  transcribed, \* jobs for which a run called download_audio, then transcribe()
  budget,     \* what the environment may still do: requests, commit faults
  stream,     \* the stream_job_updates generator a client consumes
  ret,        \* the last value a request returned (or the error it raised)
  factory,    \* a BackendFactory: _backends and _initialized
  files,      \* the chunk cache directory of the script's Transcriber
  clock,      \* the file system's clock
  model_cache, \* _model_cache of each FallbackWhisperBackend instance
  loads,      \* how often whisper.load_model was called, per model name
  tasks       \* coroutines of the libraries that are suspended at an await

vars ==
  <<settings, available, db, cache, running, runs, retries, transcribed, budget,
    stream, ret, factory, files, clock, model_cache, loads, tasks>>
\* the state of the libraries under the service, which the service's
\* operations leave alone
loader == <<model_cache, loads, tasks>>
library == <<factory, files, clock, loader>>

JobStatus == {"pending", "processing", "completed", "failed"}
\* transcription.py imports JobPhase from src.core.models and assigns
\* job.phase (lines 195, 226, 267, 273); the declaration of the enum and of
\* the column is not in src/src/core/models.py.
JobPhase == {"downloading", "transcribing", "finalizing", "complete"}

TranscriptionJob(url, model) ==
  [url |-> url, model_requested |-> model, status |-> "pending",
   phase |-> None, progress |-> 0, text |-> None, title |-> None,
   error |-> None, started_at |-> None, completed_at |-> None,
   processing_time_ms |-> None]

\* Service instances: 1..MaxSvc serve requests, MaxSvc + p is the instance
\* that _process_job_with_new_session builds for run p.
RequestSvc == 1..MaxSvc
Inner(p) == MaxSvc + p
Instances == 1..(MaxSvc + MaxRuns)

\* ------------------------------------------------------------ DownloadService
\* variant of is_supported_url that accepts every url
is_supported_url_Any(url) == Len(url) >= 0
is_supported_url(url) ==
  /\ Len(url) >= 2
  /\ url[1] \in Schemes
  /\ url[2] \notin url_blocklist
  /\ (url_allowlist # {} => url[2] \in url_allowlist)

\* ---------------------------------------------------------------- CacheService
\* sha256 of "url:model"; the digest is taken to be collision free.
_generate_cache_key(url, model) == url \o <<":">> \o model

\* `not self.cache`: the handle is None when the cache is disabled, and a
\* diskcache.Cache defines __len__ but not __bool__, so an empty cache is falsy.
CacheFalsy(s, c) == ~s.cache_enabled \/ DOMAIN c = {}

\* Values of the cache.  A dict is the function of its items; a value of any
\* other type is the function with the items pyclass and truthy.
NonDict(truthy) == [pyclass |-> "list", truthy |-> truthy]
isinstance_dict(v) == "pyclass" \notin DOMAIN v
\* bool(v)
Truthy(v) == IF isinstance_dict(v) THEN DOMAIN v # {} ELSE v.truthy = "yes"

\* lines 41-44: the entry is there, is truthy, is a dict and has a text item
Accepted(c, key) ==
  /\ key \in DOMAIN c
  /\ Truthy(c[key])
  /\ isinstance_dict(c[key]) /\ "text" \in DOMAIN c[key]

\* the value get_transcription returns
get_transcription(s, c, url, model) ==
  LET key == _generate_cache_key(url, model) IN
  IF CacheFalsy(s, c) THEN None
  ELSE IF Accepted(c, key) THEN Some(c[key])
  ELSE None

\* the cache get_transcription leaves: lines 45-47 delete an entry that is
\* truthy and not accepted
get_transcription_cache(s, c, url, model) ==
  LET key == _generate_cache_key(url, model) IN
  IF CacheFalsy(s, c) THEN c
  ELSE IF key \in DOMAIN c /\ Truthy(c[key]) /\ ~Accepted(c, key)
       THEN [k \in DOMAIN c \ {key} |-> c[k]]
       ELSE c

\* the url item of a stored value: value.get('url') of a dict
StoredUrl(v) ==
  IF isinstance_dict(v) /\ "url" \in DOMAIN v THEN Some(v.url) ELSE None

\* lines 96-105: the keys invalidate_url deletes
keys_to_delete(c, url) == {k \in DOMAIN c : StoredUrl(c[k]) = Some(url)}
\* variant of invalidate_url that deletes the entries of every url
invalidate_url_Every(s, c, url) ==
  [k \in {k2 \in DOMAIN c : StoredUrl(c[k2]) = None} |-> c[k]]
invalidate_url(s, c, url) ==
  IF CacheFalsy(s, c) THEN c
  ELSE [k \in DOMAIN c \ keys_to_delete(c, url) |-> c[k]]

store_transcription(s, c, url, model, result) ==
  LET key == _generate_cache_key(url, model) IN
  IF CacheFalsy(s, c) THEN c
  ELSE IF "text" \notin DOMAIN result THEN c
  ELSE [k \in DOMAIN c \cup {key} |->
          IF k = key
          THEN [text |-> result.text, title |-> result.title,
                url |-> url, model |-> model]
          ELSE c[k]]

\* Contents the cache directory can hold when the process starts.
CacheEntryFor(url, model, text) ==
  [text |-> text, title |-> Some("title"), url |-> url, model |-> model]
EmptyCache == [k \in {} |-> CacheEntryFor(UVideo, <<"base">>, "hello world")]
WarmCache ==
  [k \in {_generate_cache_key(UVideo, <<"base">>)} |->
     CacheEntryFor(UVideo, <<"base">>, "hello world")]
InitCaches == {EmptyCache, WarmCache}

\* ------------------------------------------------------------------ session
\* UPDATE issued by a commit: the columns of `new` that differ from the copy
\* `base` the session last loaded or committed, or that were assigned a
\* fresh clock value.
Flush(row, base, new, fresh) ==
  [c \in DOMAIN row |->
     IF new[c] # base[c] \/ c \in fresh THEN new[c] ELSE row[c]]

\* BackendFactory.__init__
NewFactory == [_backends |-> <<>>, _initialized |-> FALSE]
\* the chunk cache directory when it holds no file
NoFiles == [k \in {} |-> [size |-> 0, mtime |-> 0]]

\* No backend instance exists, no model was loaded, no coroutine is suspended.
NoTasks == [t \in {} |-> [pc |-> "none"]]
LoaderAtRest ==
  /\ model_cache = [i \in {} |-> {}]
  /\ loads = [m \in {} |-> 0]
  /\ tasks = NoTasks

\* The requests and commit faults the environment issues in one behaviour:
\* several jobs, or one job that is retried, or one job hit by commit faults,
\* or several jobs with a client that streams the updates of one of them.
Workloads ==
  {[create |-> MaxJobs, retry |-> 0, fault |-> 0, stream |-> 0],
   [create |-> 1, retry |-> MaxRetries, fault |-> 0, stream |-> 0],
   [create |-> 1, retry |-> 1, fault |-> MaxFaults, stream |-> 0],
   [create |-> MaxJobs, retry |-> 0, fault |-> 0, stream |-> 1]}

\* What the process finds when it starts.  Racing retries are explored with
\* a working backend and a warm cache.
Scenarios ==
  {sc \in [max_concurrent_jobs : MaxConcurrentJobsValues,
           available : InitAvailable, cache : InitCaches,
           budget : Workloads] :
     sc.budget.retry > 1 => (sc.available # {} /\ sc.cache = WarmCache)}

Init ==
  \E sc \in Scenarios :
    /\ settings = [max_concurrent_jobs |-> sc.max_concurrent_jobs,
                   cache_enabled |-> TRUE]
    /\ available = sc.available
    /\ cache = sc.cache
    /\ budget = sc.budget
    /\ db = <<>>
    /\ running = [i \in Instances |-> {}]
    /\ runs = <<>>
    /\ retries = <<>>
    /\ transcribed = {}
    /\ stream = [st |-> "none", job |-> 0, last |-> "none"]
    /\ ret = [op |-> "none", val |-> "none"]
    /\ factory = NewFactory
    /\ files = NoFiles
    /\ clock = 0
    /\ LoaderAtRest

NewRun(j, s) ==
  [job |-> j, svc |-> s, pc |-> "new", obj |-> None, audio |-> FALSE,
   tmp |-> FALSE,
   err |-> None, level |-> "none", escaped |-> FALSE,
   backend |-> None, calls |-> <<>>]

\* ----------------------------------------------------------------- create_job
\* variant of CachedJob that leaves the status at its default
CachedJob_StatusDefault(url, model, cached_result) ==
  [TranscriptionJob(url, model) EXCEPT
     !.text = Some(cached_result.text),
     !.title = cached_result.title,
     !.completed_at = Some(Now),
     !.processing_time_ms = Some(0)]

\* lines 57-72: the job built from a cached result
CachedJob(url, model, cached_result) ==
  [TranscriptionJob(url, model) EXCEPT
     !.status = "completed",
     !.text = Some(cached_result.text),
     !.title = cached_result.title,
     !.completed_at = Some(Now),
     !.processing_time_ms = Some(0)]

\* variant of SlotFree that ignores the cap
SlotFree_Always(s) == Cardinality(running[s]) >= 0
\* line 91 and line 123: is a slot free in this instance's _running_jobs
SlotFree(s) == Cardinality(running[s]) < settings.max_concurrent_jobs

create_job(s, url, model, start_processing) ==
  IF ~is_supported_url(url)
  THEN /\ ret' = [op |-> "create_job", val |-> "ValueError"]
       /\ UNCHANGED <<settings, available, db, cache, running, runs, retries,
                      transcribed, budget>>
  ELSE
    LET cached_result == IF settings.cache_enabled
                         THEN get_transcription(settings, cache, url, model)
                         ELSE None
        id == Len(db) + 1
    IN
    /\ budget.create > 0
    /\ budget' = [budget EXCEPT !.create = @ - 1]
    /\ IF cached_result # None
       THEN /\ db' = Append(db, CachedJob(url, model, cached_result[1]))
            /\ UNCHANGED <<running, runs>>
       ELSE /\ db' = Append(db, TranscriptionJob(url, model))
            /\ IF start_processing /\ SlotFree(s)
               THEN /\ runs' = Append(runs, NewRun(id, s))
                    /\ running' = [running EXCEPT ![s] = @ \cup {id}]
               ELSE UNCHANGED <<running, runs>>
    /\ cache' = IF settings.cache_enabled
                THEN get_transcription_cache(settings, cache, url, model)
                ELSE cache
    /\ ret' = [op |-> "create_job", val |-> "job"]
    /\ UNCHANGED <<settings, available, retries, transcribed>>


\* -------------------------------------------------------------- BackendFactory
transcription_backends == <<"whisper_cpp", "mlx", "openai">>
get_priority(b) ==
  CASE b = "mlx" -> 5
    [] b = "whisper_cpp" -> 10
    [] b = "openai" -> 50
    [] OTHER -> 100

\* list.sort(key=get_priority): stable insertion into an ascending list.
RECURSIVE InsertByPriority(_, _)
InsertByPriority(b, sorted) ==
  IF sorted = <<>> THEN <<b>>
  ELSE IF get_priority(b) < get_priority(Head(sorted))
       THEN <<b>> \o sorted
       ELSE <<Head(sorted)>> \o InsertByPriority(b, Tail(sorted))

RECURSIVE SortByPriority(_)
SortByPriority(list) ==
  IF list = <<>> THEN <<>>
  ELSE InsertByPriority(list[Len(list)],
                        SortByPriority(SubSeq(list, 1, Len(list) - 1)))

\* initialize(): the configured backends whose is_available() holds, sorted.
initialize(avail) ==
  SortByPriority(SelectSeq(transcription_backends, LAMBDA b : b \in avail))

\* variant of get_best_backend that does not ask is_available()
get_best_backend_First(backends, avail) ==
  IF backends = <<>> THEN None ELSE Some(Head(backends))
\* get_best_backend(): the first registered backend that is available now.
get_best_backend(backends, avail) ==
  LET ok == SelectSeq(backends, LAMBDA b : b \in avail) IN
  IF ok = <<>> THEN None ELSE Some(Head(ok))

\* ------------------------------------------------------------------ pipeline
DbError == "database is locked"
PolicyError == "Video too long: 20000 seconds"
BackendError == "whisper failed"
\* download.py:116-117, raised after ydl.download has written its files
NotFoundError == "Downloaded audio file not found"
\* a call that does not return: the code sets no timeout on download_audio
\* or on backend.transcribe
Hangs == "does not return"

\* variant of Job that addresses the first row whatever the run's job_id is
Job_FirstRow(p) == runs[p].job - runs[p].job + 1
Job(p) == runs[p].job
Obj(p) == runs[p].obj[1]
At(p, pc) == p \in DOMAIN runs /\ runs[p].pc = pc
MayFault(ok) == ok \/ budget.fault > 0

\* Outcome of `await self.db_session.commit()` for run p, whose job object
\* now holds `new`: the UPDATE, or an exception after which the session is
\* rolled back and its objects are expired.
Commit(p, ok, new, fresh, run_ok, run_failed) ==
  /\ MayFault(ok)
  /\ IF ok
     THEN /\ db' = [db EXCEPT ![Job(p)] = Flush(@, Obj(p), new, fresh)]
          /\ runs' = [runs EXCEPT ![p] = [run_ok EXCEPT !.obj = Some(new)]]
          /\ UNCHANGED budget
     ELSE /\ runs' = [runs EXCEPT ![p] = [run_failed EXCEPT !.obj = None]]
          /\ budget' = [budget EXCEPT !.fault = @ - 1]
          /\ UNCHANGED db

Raise(run, level, msg) ==
  [run EXCEPT !.pc = "failing", !.level = level, !.err = Some(msg)]

\* The assignments _process_job makes to its job object, stage by stage.
\* lines 193-196
ToProcessing(job) ==
  [job EXCEPT !.status = "processing", !.started_at = Some(Now),
              !.phase = Some("downloading"), !.progress = 0]
\* lines 208-210
DownloadDone(job) == [job EXCEPT !.title = Some("title"), !.progress = 100]
\* variant of ToTranscribing that resets the progress but keeps the phase
ToTranscribing_KeepsPhase(job) == [job EXCEPT !.progress = 0]
\* lines 226-227
ToTranscribing(job) ==
  [job EXCEPT !.phase = Some("transcribing"), !.progress = 0]
\* lines 240-244
TranscribeDone(job, text) ==
  [job EXCEPT !.text = Some(text), !.progress = 100]
\* variant of ToFinalizing that jumps to the last phase
ToFinalizing_SkipsToComplete(job) ==
  [job EXCEPT !.phase = Some("complete"), !.progress = 0]
\* lines 267-268
ToFinalizing(job) == [job EXCEPT !.phase = Some("finalizing"), !.progress = 0]
\* variant of ToCompleted that leaves the phase at finalizing
ToCompleted_KeepsPhase(job, elapsed) ==
  [job EXCEPT !.status = "completed", !.progress = 100,
              !.completed_at = Some(Now),
              !.processing_time_ms = Some(elapsed)]
\* variant of ToCompleted that does not stamp completed_at
ToCompleted_NoTimestamp(job, elapsed) ==
  [job EXCEPT !.status = "completed", !.phase = Some("complete"),
              !.progress = 100, !.processing_time_ms = Some(elapsed)]
\* lines 272-278
ToCompleted(job, elapsed) ==
  [job EXCEPT !.status = "completed", !.phase = Some("complete"),
              !.progress = 100, !.completed_at = Some(Now),
              !.processing_time_ms = Some(elapsed)]
\* lines 299-305
ToFailed(job, error, elapsed) ==
  [job EXCEPT !.status = "failed", !.error = Some(error),
              !.completed_at = Some(Now),
              !.processing_time_ms =
                 IF job.started_at # None THEN Some(elapsed) ELSE @]
\* variant of ResetForRetry that keeps the error
ResetForRetry_KeepsError(job) ==
  [job EXCEPT !.status = "pending", !.progress = 0,
              !.started_at = None, !.completed_at = None,
              !.processing_time_ms = None]
\* lines 113-118
ResetForRetry(job) ==
  [job EXCEPT !.status = "pending", !.error = None, !.progress = 0,
              !.started_at = None, !.completed_at = None,
              !.processing_time_ms = None]
\* variant of Retryable that accepts a job in any status
Retryable_AnyStatus(d, j) == j \in DOMAIN d
\* line 109
Retryable(d, j) == j \in DOMAIN d /\ d[j].status = "failed"

\* _process_job_with_new_session and the get_job of _process_job
process_job_with_new_session(p) ==
  /\ At(p, "new")
  /\ runs' = [runs EXCEPT ![p] =
       IF Job(p) \in DOMAIN db
       THEN [@ EXCEPT !.pc = "loaded", !.obj = Some(db[Job(p)])]
       ELSE [@ EXCEPT !.pc = "finally"]]
  /\ UNCHANGED <<settings, available, db, cache, running, retries,
               transcribed, budget, ret>>

\* lines 190-197: update to processing
process_job_begin(p, ok) ==
  /\ At(p, "loaded")
  /\ Commit(p, ok,
       ToProcessing(Obj(p)),
       {"started_at"},
       [runs[p] EXCEPT !.pc = "download"],
       Raise(runs[p], "outer", <<"Unexpected error: ", DbError>>))
  /\ UNCHANGED <<settings, available, cache, running, retries, transcribed,
               ret>>

\* lines 199-215: download audio.  audio: audio_info is bound; tmp: yt-dlp
\* has written a file into temp_dir (download.py:108).
process_job_download(p, outcome, ok) ==
  /\ At(p, "download")
  /\ LET called == [runs[p] EXCEPT !.tmp = outcome \in {"ok", NotFoundError}]
     IN
     IF outcome = "ok"
     THEN Commit(p, ok,
            DownloadDone(Obj(p)),
            {},
            [called EXCEPT !.pc = "select", !.audio = TRUE],
            Raise([called EXCEPT !.audio = TRUE], "inner",
                  <<"Download failed: ", DbError>>))
     ELSE /\ ok
          /\ runs' = [runs EXCEPT ![p] =
               IF outcome = Hangs THEN [called EXCEPT !.pc = "hung"]
               ELSE Raise(called, "inner",
                          <<"Download failed: ", "Download failed: ", outcome>>)]
          /\ UNCHANGED <<db, budget>>
  /\ UNCHANGED <<settings, available, cache, running, retries, transcribed,
               ret>>

\* lines 217-228: backend selection and the switch to the transcribing phase
process_job_select(p, ok) ==
  /\ At(p, "select")
  /\ IF get_best_backend(initialize(available), available) = None
     THEN /\ ok
          /\ runs' = [runs EXCEPT ![p] =
               Raise(@, "inner", <<"No transcription backend available">>)]
          /\ UNCHANGED <<db, budget>>
     ELSE LET selected == [runs[p] EXCEPT !.backend =
                   get_best_backend(initialize(available), available)]
          IN Commit(p, ok,
               ToTranscribing(Obj(p)),
               {},
               [selected EXCEPT !.pc = "transcribe"],
               Raise(selected, "inner", <<"Transcription failed: ", DbError>>))
  /\ UNCHANGED <<settings, available, cache, running, retries, transcribed,
               ret>>

\* lines 230-250: backend.transcribe and the commit of its result
process_job_transcribe(p, text, ok) ==
  /\ At(p, "transcribe")
  /\ transcribed' = transcribed \cup {Job(p)}
  /\ LET called == [runs[p] EXCEPT !.calls =
                      Append(@, [backend |-> runs[p].backend, result |-> text])]
     IN
     IF text \in Texts
     THEN Commit(p, ok,
            TranscribeDone(Obj(p), text),
            {},
            [called EXCEPT !.pc = "store"],
            Raise(called, "inner", <<"Transcription failed: ", DbError>>))
     ELSE /\ ok
          /\ runs' = [runs EXCEPT ![p] =
               IF text = Hangs THEN [called EXCEPT !.pc = "hung"]
               ELSE Raise(called, "inner", <<"Transcription failed: ", text>>)]
          /\ UNCHANGED <<db, budget>>
  /\ UNCHANGED <<settings, available, cache, running, retries, ret>>

\* variant of AfterCacheStore that surfaces a failed cache write
AfterCacheStore_Surfaces(run, stored) ==
  IF stored THEN [run EXCEPT !.pc = "complete"]
  ELSE Raise(run, "outer", <<"Unexpected error: ", "cache write failed">>)
\* lines 253-264 with cache.py:84-86: store_transcription swallows the
\* exception of self.cache.set, so the run goes on whether or not the entry
\* was stored.
AfterCacheStore(run, stored) == [run EXCEPT !.pc = "complete"]

\* lines 252-269: cache the result, then switch to the finalizing phase.
\* `stored` is false when self.cache.set raises.
process_job_finalize(p, stored, ok) ==
  /\ At(p, "store")
  /\ cache' = IF settings.cache_enabled /\ stored
              THEN store_transcription(settings, cache, Obj(p).url,
                     Obj(p).model_requested,
                     [text |-> Obj(p).text[1], title |-> Obj(p).title])
              ELSE cache
  /\ Commit(p, ok,
       ToFinalizing(Obj(p)),
       {},
       AfterCacheStore(runs[p], stored),
       Raise(runs[p], "outer", <<"Unexpected error: ", DbError>>))
  /\ UNCHANGED <<settings, available, running, retries, transcribed, ret>>

\* lines 271-281: mark completed
process_job_complete(p, elapsed, ok) ==
  /\ At(p, "complete")
  /\ Commit(p, ok,
       ToCompleted(Obj(p), elapsed),
       {"completed_at", "processing_time_ms"},
       [runs[p] EXCEPT !.pc = "finally"],
       Raise(runs[p], "outer", <<"Unexpected error: ", DbError>>))
  /\ UNCHANGED <<settings, available, cache, running, retries, transcribed,
               ret>>

\* _mark_job_failed, called by _process_job.  get_job returns the session's
\* object; it is re-read from the table only when a rollback expired it.
\* Level "inner": the call is made inside the outer try block (lines 214,
\* 220, 249), and an exception of its commit is caught by the outer except
\* clause.  Level "outer": the call is made by the outer except clause (line
\* 284), and an exception of its commit leaves _process_job for the caller.
_mark_job_failed(p, elapsed, ok) ==
  /\ At(p, "failing")
  /\ MayFault(ok)
  /\ LET job == IF runs[p].obj = None THEN db[Job(p)] ELSE Obj(p)
         new == ToFailed(job, runs[p].err[1], elapsed)
         fresh == {"completed_at"} \cup
                  (IF job.started_at # None THEN {"processing_time_ms"} ELSE {})
     IN
     IF ok
     THEN /\ db' = [db EXCEPT ![Job(p)] = Flush(@, job, new, fresh)]
          /\ runs' = [runs EXCEPT ![p] =
               [@ EXCEPT !.pc = "finally", !.obj = Some(new)]]
          /\ UNCHANGED budget
     ELSE /\ runs' = [runs EXCEPT ![p] =
               IF runs[p].level = "inner"
               THEN [Raise(@, "outer", <<"Unexpected error: ", DbError>>)
                       EXCEPT !.obj = None]
               ELSE [@ EXCEPT !.pc = "finally", !.obj = None,
                              !.escaped = TRUE]]
          /\ budget' = [budget EXCEPT !.fault = @ - 1]
          /\ UNCHANGED db
  /\ UNCHANGED <<settings, available, cache, running, retries, transcribed,
               ret>>

\* lines 285-292: the finally clause.  self is the instance built by
\* _process_job_with_new_session, so self._running_jobs is that instance's map.
\* cleanup_file is called only when audio_info is bound; it swallows the
\* exception of unlink (download.py:137-142), `unlinked` is false then.
process_job_finally(p, unlinked) ==
  /\ At(p, "finally")
  /\ runs[p].audio \/ unlinked
  /\ running' = [running EXCEPT ![Inner(p)] = @ \ {Job(p)}]
  /\ runs' = [runs EXCEPT ![p] =
       [@ EXCEPT !.pc = "done", !.audio = FALSE, !.obj = None,
                 !.err = None, !.level = "none",
                 !.tmp = IF runs[p].audio /\ unlinked THEN FALSE ELSE @]]
  /\ UNCHANGED <<settings, available, db, cache, retries, transcribed,
               budget, ret>>


\* ------------------------------------------------------------------ retry_job
InUse(t) == running[t] # {} \/ \E r \in DOMAIN retries : retries[r].svc = t
\* Fresh service instances are interchangeable: a request is served by an
\* instance already in use or by the lowest fresh one.
Serves(s) == \A t \in 1..(s - 1) : InUse(t)

RemoveAt(seq, i) == SubSeq(seq, 1, i - 1) \o SubSeq(seq, i + 1, Len(seq))

\* lines 108-118: load the job, return None unless it failed, reset the object
retry_job(s, j) ==
  IF ~Retryable(db, j)
  THEN /\ ret' = [op |-> "retry_job", val |-> "None"]
       /\ UNCHANGED <<settings, available, db, cache, running, runs, retries,
                      transcribed, budget>>
  ELSE /\ budget.retry > 0
       /\ budget' = [budget EXCEPT !.retry = @ - 1]
       /\ retries' = Append(retries,
            [svc |-> s, job |-> j, base |-> db[j],
             obj |-> ResetForRetry(db[j])])
       /\ UNCHANGED <<settings, available, db, cache, running, runs,
                      transcribed, ret>>

\* lines 120-129: the commit, then the scheduling of the pipeline
retry_job_commit(r) ==
  /\ r \in DOMAIN retries
  /\ LET q == retries[r] IN
     /\ db' = [db EXCEPT ![q.job] = Flush(@, q.base, q.obj, {})]
     /\ IF SlotFree(q.svc)
        THEN /\ runs' = Append(runs, NewRun(q.job, q.svc))
             /\ running' = [running EXCEPT ![q.svc] = @ \cup {q.job}]
        ELSE UNCHANGED <<running, runs>>
     /\ ret' = [op |-> "retry_job", val |-> "job"]
  /\ retries' = RemoveAt(retries, r)
  /\ UNCHANGED <<settings, available, cache, transcribed, budget>>

\* ---------------------------------------------------------- stream_job_updates
Terminal == {"completed", "failed"}

\* lines 144-159: one iteration of the loop: read the row in a new session,
\* stop if there is none, yield it, stop if it is completed or failed.
StreamIteration(j) ==
  IF j \notin DOMAIN db
  THEN [st |-> "closed", job |-> j, last |-> stream.last]
  ELSE [st |-> IF db[j].status \in Terminal THEN "closed" ELSE "open",
        job |-> j, last |-> db[j].status]

\* the call and the first iteration of the generator
stream_job_updates(j) ==
  /\ stream.st = "none"
  /\ budget.stream > 0
  /\ budget' = [budget EXCEPT !.stream = @ - 1]
  /\ stream' = StreamIteration(j)
  /\ UNCHANGED <<settings, available, db, cache, running, runs, retries,
                 transcribed, ret>>

\* a later iteration, after asyncio.sleep(1)
stream_poll ==
  /\ stream.st = "open"
  /\ stream' = StreamIteration(stream.job)
  /\ UNCHANGED <<settings, available, db, cache, running, runs, retries,
                 transcribed, budget, ret>>

\* ----------------------------------------------------------------------- Next
Outcomes == {"ok", PolicyError, NotFoundError, Hangs}
Results == Texts \cup {BackendError, Hangs}
RunIds == 1..MaxRuns

CreateJob ==
  \E s \in RequestSvc, url \in URLs, model \in Models :
    Serves(s) /\ create_job(s, url, model, TRUE) /\ UNCHANGED <<stream, library>>
RetryJob ==
  \E s \in RequestSvc, j \in 1..MaxJobs :
    Serves(s) /\ retry_job(s, j) /\ UNCHANGED <<stream, library>>
RetryJobCommit ==
  \E r \in 1..MaxRetries : retry_job_commit(r) /\ UNCHANGED <<stream, library>>
ProcessStart ==
  \E p \in RunIds : process_job_with_new_session(p) /\ UNCHANGED <<stream, library>>
ProcessBegin ==
  \E p \in RunIds, ok \in BOOLEAN :
    process_job_begin(p, ok) /\ UNCHANGED <<stream, library>>
ProcessDownload ==
  \E p \in RunIds, o \in Outcomes, ok \in BOOLEAN :
    process_job_download(p, o, ok) /\ UNCHANGED <<stream, library>>
ProcessSelect ==
  \E p \in RunIds, ok \in BOOLEAN :
    process_job_select(p, ok) /\ UNCHANGED <<stream, library>>
ProcessTranscribe ==
  \E p \in RunIds, t \in Results, ok \in BOOLEAN :
    process_job_transcribe(p, t, ok) /\ UNCHANGED <<stream, library>>
ProcessFinalize ==
  \E p \in RunIds, stored \in BOOLEAN, ok \in BOOLEAN :
    process_job_finalize(p, stored, ok) /\ UNCHANGED <<stream, library>>
ProcessComplete ==
  \E p \in RunIds, e \in ElapsedMs, ok \in BOOLEAN :
    process_job_complete(p, e, ok) /\ UNCHANGED <<stream, library>>
MarkJobFailed ==
  \E p \in RunIds, e \in ElapsedMs, ok \in BOOLEAN :
    _mark_job_failed(p, e, ok) /\ UNCHANGED <<stream, library>>
ProcessFinally ==
  \E p \in RunIds, unlinked \in BOOLEAN :
    process_job_finally(p, unlinked) /\ UNCHANGED <<stream, library>>
StreamJobUpdates ==
  \E j \in 1..MaxJobs :
    stream_job_updates(j) /\ UNCHANGED library
StreamPoll == stream_poll /\ UNCHANGED library

Next ==
  \/ CreateJob
  \/ RetryJob
  \/ RetryJobCommit
  \/ ProcessStart
  \/ ProcessBegin
  \/ ProcessDownload
  \/ ProcessSelect
  \/ ProcessTranscribe
  \/ ProcessFinalize
  \/ ProcessComplete
  \/ MarkJobFailed
  \/ ProcessFinally
  \/ StreamJobUpdates
  \/ StreamPoll

Spec == Init /\ [][Next]_vars

\* The event loop runs every task that is ready, and the consumer of the
\* stream keeps asking for the next snapshot.
FairSpec ==
  /\ Spec
  /\ WF_vars(RetryJobCommit)
  /\ WF_vars(ProcessStart)
  /\ WF_vars(ProcessBegin)
  /\ WF_vars(ProcessDownload)
  /\ WF_vars(ProcessSelect)
  /\ WF_vars(ProcessTranscribe)
  /\ WF_vars(ProcessFinalize)
  /\ WF_vars(ProcessComplete)
  /\ WF_vars(MarkJobFailed)
  /\ WF_vars(ProcessFinally)
  /\ WF_vars(StreamPoll)


\* ========================================================= the libraries alone
\* The service at rest: no job, no run, no request in flight.
ServiceAtRest ==
  /\ db = <<>>
  /\ running = [i \in Instances |-> {}]
  /\ runs = <<>>
  /\ retries = <<>>
  /\ transcribed = {}
  /\ budget = [create |-> 0, retry |-> 0, fault |-> 0, stream |-> 0]
  /\ stream = [st |-> "none", job |-> 0, last |-> "none"]
  /\ ret = [op |-> "none", val |-> "none"]
service == <<db, running, runs, retries, transcribed, budget, stream>>

\* ------------------------------------------------- BackendFactory, one instance
Backends == {transcription_backends[i] : i \in DOMAIN transcription_backends}
Registered(f) == {f._backends[i] : i \in DOMAIN f._backends}
ModelNames == {"base", "large-v3", "whisper-1"}

\* supports_model of MLXWhisperBackend (the names of _model_mapping), of
\* WhisperCPPBackend and of OpenAIBackend
supports_model(b, model) ==
  CASE b = "mlx" ->
         model \in {"tiny", "base", "small", "medium", "large",
                    "large-v1", "large-v2", "large-v3"}
    [] b = "whisper_cpp" ->
         model \in {"tiny", "base", "small", "medium", "large"}
    [] OTHER -> TRUE

\* variant of BackendFactory_initialize that probes again on every call
BackendFactory_initialize_Reprobes(f, avail, built) ==
  [_backends |-> initialize(avail \cap built), _initialized |-> TRUE]
\* initialize() as a method: nothing happens once _initialized is set;
\* otherwise the configured backends whose class is imported and constructed
\* (`built`) and whose is_available() holds are registered in priority order.
BackendFactory_initialize(f, avail, built) ==
  IF f._initialized THEN f
  ELSE [_backends |-> initialize(avail \cap built), _initialized |-> TRUE]

\* variant of get_backend_for_model that does not ask supports_model
get_backend_for_model_AnyModel(backends, avail, model) ==
  LET ok == SelectSeq(backends, LAMBDA b : b \in avail) IN
  IF ok = <<>> THEN None ELSE Some(Head(ok))
\* get_backend_for_model(): the first registered backend that is available
\* now and supports the model
get_backend_for_model(backends, avail, model) ==
  LET ok == SelectSeq(backends,
              LAMBDA b : b \in avail /\ supports_model(b, model))
  IN IF ok = <<>> THEN None ELSE Some(Head(ok))

\* get_available_backends(): the registered backends that are available now
get_available_backends(backends, avail) ==
  SelectSeq(backends, LAMBDA b : b \in avail)

\* a call of a method of the factory: initialize() first where the method
\* does so (`f` is the factory it leaves), then the answer, computed with
\* the availability of the moment
FactoryCall(op, arg, f, val) ==
  /\ factory' = f
  /\ ret' = [op |-> op, arg |-> arg, at |-> available, val |-> val]
  /\ UNCHANGED <<settings, available, cache, service, files, clock, loader>>

FactoryInitialize ==
  \E built \in SUBSET Backends :
    FactoryCall("initialize", "",
                BackendFactory_initialize(factory, available, built), None)
GetBestBackend ==
  \E built \in SUBSET Backends :
    LET f == BackendFactory_initialize(factory, available, built) IN
    FactoryCall("get_best_backend", "", f,
                get_best_backend(f._backends, available))
GetBackendForModel ==
  \E built \in SUBSET Backends, model \in ModelNames :
    LET f == BackendFactory_initialize(factory, available, built) IN
    FactoryCall("get_backend_for_model", model, f,
                get_backend_for_model(f._backends, available, model))
GetAvailableBackends ==
  \E built \in SUBSET Backends :
    LET f == BackendFactory_initialize(factory, available, built) IN
    FactoryCall("get_available_backends", "", f,
                get_available_backends(f._backends, available))
\* a backend starts or stops answering is_available() with true: the
\* whisper.cpp binary is installed or removed, the OpenAI key's daily limit
\* is reached, the mlx_whisper package is installed
AvailabilityChanges ==
  /\ \E a \in SUBSET Backends : a # available /\ available' = a
  /\ UNCHANGED <<settings, cache, service, ret, factory, files, clock,
                 loader>>

FactoryInit ==
  /\ ServiceAtRest
  /\ settings = [max_concurrent_jobs |-> DefaultMaxConcurrentJobs,
                 cache_enabled |-> TRUE]
  /\ cache = EmptyCache
  /\ available \in SUBSET Backends
  /\ factory = NewFactory
  /\ files = NoFiles
  /\ clock = 0
  /\ LoaderAtRest

FactoryNext ==
  \/ FactoryInitialize
  \/ GetBestBackend
  \/ GetBackendForModel
  \/ GetAvailableBackends
  \/ AvailabilityChanges

FactorySpec == FactoryInit /\ [][FactoryNext]_vars

\* ------------------------- BackendFactory, one instance, concurrent callers
\* Coroutines that call methods of one factory on one event loop.  A
\* coroutine runs until it awaits something that suspends; in initialize()
\* that is the probe of a backend whose is_available() waits for a
\* subprocess.
Callers == 1..2
FactoryCalls ==
  {<<"initialize", "">>, <<"get_best_backend", "">>,
   <<"get_available_backends", "">>}
    \cup {<<"get_backend_for_model", m>> : m \in {"base", "whisper-1"}}

\* WhisperCPPBackend.is_available awaits create_subprocess_exec and
\* communicate (whisper_cpp.py:26-31); the other backends answer without
\* suspending
Suspends(b) == b = "whisper_cpp"

\* what a method answers once the factory is initialized
Answer(call, f, avail) ==
  CASE call[1] = "get_best_backend" -> get_best_backend(f._backends, avail)
    [] call[1] = "get_available_backends" ->
         get_available_backends(f._backends, avail)
    [] call[1] = "get_backend_for_model" ->
         get_backend_for_model(f._backends, avail, call[2])
    [] OTHER -> None

\* factory.py:44-51 from the class at the head of `todo` on, as far as it
\* runs without suspending
RECURSIVE ProbeLoop(_, _, _)
ProbeLoop(list, todo, avail) ==
  IF todo = <<>> \/ Suspends(Head(todo)) THEN [list |-> list, todo |-> todo]
  ELSE ProbeLoop(IF Head(todo) \in avail THEN Append(list, Head(todo))
                 ELSE list,
                 Tail(todo), avail)

\* the loop continued on self._backends = list, and lines 53-55 when it is
\* through
InitializeFrom(f, list, todo, avail) ==
  LET r == ProbeLoop(list, todo, avail) IN
  IF r.todo = <<>>
  THEN [f |-> [_backends |-> SortByPriority(r.list), _initialized |-> TRUE],
        todo |-> <<>>]
  ELSE [f |-> [f EXCEPT !._backends = r.list], todo |-> r.todo]

\* coroutine t has run as far as it can: it is suspended in the probe of
\* Head(todo), or it returns
Proceed(t, call, step) ==
  /\ factory' = step.f
  /\ IF step.todo = <<>>
     THEN /\ tasks' = [u \in DOMAIN tasks \ {t} |-> tasks[u]]
          /\ ret' = [op |-> call[1], arg |-> call[2], at |-> available,
                     val |-> Answer(call, step.f, available)]
     ELSE /\ tasks' = [u \in DOMAIN tasks \cup {t} |->
                        IF u = t THEN [call |-> call, todo |-> step.todo]
                        ELSE tasks[u]]
          /\ UNCHANGED ret
  /\ UNCHANGED <<settings, available, cache, service, files, clock,
                 model_cache, loads>>

\* a coroutine calls a method: line 18 (or 59, 70, 81, 93) tests
\* _initialized, lines 22-41 collect the classes of the configured backends,
\* and the loop of lines 44-51 starts
FactoryEnter(t, call) ==
  /\ t \notin DOMAIN tasks
  /\ Proceed(t, call,
       IF factory._initialized THEN [f |-> factory, todo |-> <<>>]
       ELSE InitializeFrom(factory, factory._backends,
              transcription_backends, available))

\* the probe a coroutine is suspended in returns: line 48 appends the
\* backend if it is available, and the loop goes on
FactoryResume(t) ==
  /\ t \in DOMAIN tasks
  /\ LET b == Head(tasks[t].todo) IN
     Proceed(t, tasks[t].call,
       InitializeFrom(factory,
         IF b \in available THEN Append(factory._backends, b)
         ELSE factory._backends,
         Tail(tasks[t].todo), available))

RaceEnter ==
  \E t \in Callers, call \in FactoryCalls : FactoryEnter(t, call)
RaceResume == \E t \in Callers : FactoryResume(t)

FactoryRaceInit ==
  /\ ServiceAtRest
  /\ settings = [max_concurrent_jobs |-> DefaultMaxConcurrentJobs,
                 cache_enabled |-> TRUE]
  /\ cache = EmptyCache
  /\ available \in SUBSET Backends
  /\ factory = NewFactory
  /\ files = NoFiles
  /\ clock = 0
  /\ LoaderAtRest

FactoryRaceNext == RaceEnter \/ RaceResume \/ AvailabilityChanges

FactoryRaceSpec == FactoryRaceInit /\ [][FactoryRaceNext]_vars

\* --------------------------------------------------- CacheService, one cache
CacheURLs == {UVideo, UOther}
CacheModels == {<<"base">>, <<"small">>}
CacheKeys ==
  {_generate_cache_key(u, m) : u \in CacheURLs, m \in CacheModels}
CacheTexts == {"hello world", ""}

\* What a cache directory can hold under the key of (url, model): an entry
\* store_transcription wrote, with or without text in it, a dict without the
\* text item, or a value that is no dict, truthy or not.
CacheValues(url, model) ==
  {CacheEntryFor(url, model, t) : t \in CacheTexts}
    \cup {[title |-> Some("title"), url |-> url, model |-> model],
          NonDict("yes"), NonDict("no")}
CacheDirs ==
  UNION {{c \in [K -> UNION {CacheValues(u, m) :
                               u \in CacheURLs, m \in CacheModels}] :
            \A u \in CacheURLs, m \in CacheModels :
              _generate_cache_key(u, m) \in K =>
                c[_generate_cache_key(u, m)] \in CacheValues(u, m)} :
         K \in SUBSET CacheKeys}

CacheGet(url, model) ==
  /\ ret' = [op |-> "get_transcription", arg |-> <<url, model>>,
             val |-> get_transcription(settings, cache, url, model)]
  /\ cache' = get_transcription_cache(settings, cache, url, model)
  /\ UNCHANGED <<settings, available, service, library>>
\* `stored` is false when self.cache.set raises
CacheStore(url, model, text, stored) ==
  /\ cache' = IF stored
              THEN store_transcription(settings, cache, url, model,
                     [text |-> text, title |-> Some("title")])
              ELSE cache
  /\ ret' = [op |-> "store_transcription", arg |-> <<url, model>>,
             val |-> None]
  /\ UNCHANGED <<settings, available, service, library>>
CacheInvalidate(url) ==
  /\ cache' = invalidate_url(settings, cache, url)
  /\ ret' = [op |-> "invalidate_url", arg |-> url,
             val |-> DOMAIN cache \ DOMAIN cache']
  /\ UNCHANGED <<settings, available, service, library>>

GetTranscription ==
  \E url \in CacheURLs, model \in CacheModels : CacheGet(url, model)
StoreTranscription ==
  \E url \in CacheURLs, model \in CacheModels, text \in CacheTexts,
     stored \in BOOLEAN : CacheStore(url, model, text, stored)
InvalidateUrl == \E url \in CacheURLs : CacheInvalidate(url)

CacheInit ==
  /\ ServiceAtRest
  /\ settings = [max_concurrent_jobs |-> DefaultMaxConcurrentJobs,
                 cache_enabled |-> TRUE]
  /\ cache \in CacheDirs
  /\ available = {}
  /\ factory = NewFactory
  /\ files = NoFiles
  /\ clock = 0
  /\ LoaderAtRest

CacheNext == GetTranscription \/ StoreTranscription \/ InvalidateUrl

CacheSpec == CacheInit /\ [][CacheNext]_vars

\* ----------------------- CacheService, urls and models that hold a ':'
\* The url and the model of a request are unconstrained strings
\* (models.py:63-64).  A string is a tuple of tokens; ":" is the separator
\* _generate_cache_key puts between them.
KeyURLs == {UVideo, UVideo \o <<":", "a">>}
KeyModels == {<<"base">>, <<"b">>, <<"a", ":", "b">>}

KeyGet == \E url \in KeyURLs, model \in KeyModels : CacheGet(url, model)
KeyStore ==
  \E url \in KeyURLs, model \in KeyModels, text \in CacheTexts :
    CacheStore(url, model, text, TRUE)

\* The cache directory already holds an entry: an empty one takes no store.
KeyInit ==
  /\ ServiceAtRest
  /\ settings = [max_concurrent_jobs |-> DefaultMaxConcurrentJobs,
                 cache_enabled |-> TRUE]
  /\ cache = WarmCache
  /\ available = {}
  /\ factory = NewFactory
  /\ files = NoFiles
  /\ clock = 0
  /\ LoaderAtRest

KeyNext == KeyGet \/ KeyStore

KeySpec == KeyInit /\ [][KeyNext]_vars

\* ------------------ Transcriber's chunk cache (scripts/transcription.py)
\* Sizes are in GB.  MaxClock bounds the number of file accesses.
MaxClock == 5
max_cache_size_gb == 3
FileSizes == {1, 2}
ChunkKeys == {"k1", "k2", "k3"}

RECURSIVE TotalSize(_)
TotalSize(fs) ==
  IF DOMAIN fs = {} THEN 0
  ELSE LET k == CHOOSE x \in DOMAIN fs : TRUE
       IN fs[k].size + TotalSize([j \in DOMAIN fs \ {k} |-> fs[j]])

\* line 155: cache_files.sort(key=mtime), oldest first
RECURSIVE SortByMtime(_)
SortByMtime(fs) ==
  IF DOMAIN fs = {} THEN <<>>
  ELSE LET k == CHOOSE x \in DOMAIN fs :
                  \A y \in DOMAIN fs : fs[x].mtime <= fs[y].mtime
       IN <<k>> \o SortByMtime([j \in DOMAIN fs \ {k} |-> fs[j]])

\* lines 161-171: the loop over the sorted files.  It stops once the size is
\* within 90% of the limit; a file whose unlink raises (`failing`) stays,
\* its size stays counted, and the loop goes on with the next file.
RECURSIVE RemoveOldest(_, _, _, _)
RemoveOldest(order, fs, current_size, failing) ==
  IF order = <<>> \/ 10 * current_size <= 9 * max_cache_size_gb THEN fs
  ELSE IF Head(order) \in failing
       THEN RemoveOldest(Tail(order), fs, current_size, failing)
       ELSE RemoveOldest(Tail(order),
                         [j \in DOMAIN fs \ {Head(order)} |-> fs[j]],
                         current_size - fs[Head(order)].size, failing)

\* lines 130-172
_manage_cache_size(fs, failing) ==
  IF TotalSize(fs) > max_cache_size_gb
  THEN RemoveOldest(SortByMtime(fs), fs, TotalSize(fs), failing)
  ELSE fs

\* lines 448-465: write the file; os.utime stamps it with the current time
_save_to_cache(fs, k, size, now) ==
  [j \in DOMAIN fs \cup {k} |->
     IF j = k THEN [size |-> size, mtime |-> now] ELSE fs[j]]
\* lines 469-490: on a hit os.utime stamps the file with the current time
_get_from_cache(fs, k, now) ==
  IF k \in DOMAIN fs THEN [fs EXCEPT ![k].mtime = now] ELSE fs

SaveToCache ==
  \E k \in ChunkKeys, size \in FileSizes :
    /\ clock < MaxClock
    /\ files' = _save_to_cache(files, k, size, clock + 1)
    /\ clock' = clock + 1
    /\ ret' = [op |-> "_save_to_cache", arg |-> k, val |-> None]
    /\ UNCHANGED <<settings, available, cache, service, factory, loader>>
GetFromCache(k) ==
  /\ clock < MaxClock
  /\ files' = _get_from_cache(files, k, clock + 1)
  /\ clock' = clock + 1
  /\ ret' = [op |-> "_get_from_cache", arg |-> k,
             val |-> IF k \in DOMAIN files THEN Some(k) ELSE None]
  /\ UNCHANGED <<settings, available, cache, service, factory, loader>>
GetFromCacheAny == \E k \in ChunkKeys : GetFromCache(k)
ManageCacheSize ==
  \E failing \in SUBSET ChunkKeys :
    /\ files' = _manage_cache_size(files, failing)
    /\ ret' = [op |-> "_manage_cache_size", arg |-> failing,
               val |-> DOMAIN files \ DOMAIN files']
    /\ UNCHANGED <<settings, available, cache, service, factory, clock,
                   loader>>

ChunkCacheInit ==
  /\ ServiceAtRest
  /\ settings = [max_concurrent_jobs |-> DefaultMaxConcurrentJobs,
                 cache_enabled |-> TRUE]
  /\ cache = EmptyCache
  /\ available = {}
  /\ factory = NewFactory
  /\ files = NoFiles
  /\ clock = 0
  /\ LoaderAtRest

ChunkCacheNext == SaveToCache \/ GetFromCacheAny \/ ManageCacheSize

ChunkCacheSpec == ChunkCacheInit /\ [][ChunkCacheNext]_vars

\* ----------------------------------- FallbackWhisperBackend._load_model
\* Every pipeline run builds its own BackendFactory (transcription.py:167-168)
\* and with it its own backend instance, whose _model_cache starts empty.
LoadRuns == 1..3
LoadModels == {"base", "small"}
Loads(m) == IF m \in DOMAIN loads THEN loads[m] ELSE 0

\* lines 96-97: `if model_name in self._model_cache`
CacheLookup(mc, inst, m) == inst \in DOMAIN mc /\ m \in mc[inst]

\* transcribe() of run r's backend up to the await of lines 99-102: the
\* instance is created, _load_model misses and whisper.load_model starts
LoadModelBegin ==
  \E r \in LoadRuns \ DOMAIN tasks, m \in LoadModels :
    /\ model_cache' = [i \in DOMAIN model_cache \cup {r} |->
                         IF i = r THEN {} ELSE model_cache[i]]
    /\ IF CacheLookup(model_cache', r, m)
       THEN /\ tasks' = [t \in DOMAIN tasks \cup {r} |->
                          IF t = r THEN [pc |-> "loaded", model |-> m]
                          ELSE tasks[t]]
            /\ UNCHANGED loads
       ELSE /\ tasks' = [t \in DOMAIN tasks \cup {r} |->
                          IF t = r THEN [pc |-> "loading", model |-> m]
                          ELSE tasks[t]]
            /\ loads' = [n \in DOMAIN loads \cup {m} |->
                           IF n = m THEN Loads(m) + 1 ELSE loads[n]]
    /\ UNCHANGED <<settings, available, cache, service, ret, factory, files,
                   clock>>
\* lines 104-105: the load has returned, the model is put into the cache
LoadModelEnd ==
  \E r \in DOMAIN tasks :
    /\ tasks[r].pc = "loading"
    /\ model_cache' = [model_cache EXCEPT ![r] = @ \cup {tasks[r].model}]
    /\ tasks' = [tasks EXCEPT ![r].pc = "loaded"]
    /\ UNCHANGED <<settings, available, cache, service, ret, factory, files,
                   clock, loads>>

ModelCacheInit ==
  /\ ServiceAtRest
  /\ settings = [max_concurrent_jobs |-> DefaultMaxConcurrentJobs,
                 cache_enabled |-> TRUE]
  /\ cache = EmptyCache
  /\ available = {}
  /\ factory = NewFactory
  /\ files = NoFiles
  /\ clock = 0
  /\ LoaderAtRest

ModelCacheNext == LoadModelBegin \/ LoadModelEnd

ModelCacheSpec == ModelCacheInit /\ [][ModelCacheNext]_vars

\* ===================================================================== claims
Pair(j) == <<db[j].url, db[j].model_requested>>
\* run p may still write the job row: it has not reached its finally clause
Working(p) == runs[p].pc \notin {"finally", "done"}
Executing(p) == runs[p].pc \notin {"new", "finally", "done"}
HasObj(p) == p \in DOMAIN runs /\ runs[p].obj # None
\* run p has made its job processing (lines 193-197 are behind it)
Entered(p) == runs[p].pc \notin {"new", "loaded"}

\* C1: for every (url, model) pair at most one job's pipeline calls
\* download_audio and then the backend's transcribe().
C1_AtMostOneTranscription ==
  \A j1, j2 \in transcribed : Pair(j1) = Pair(j2) => j1 = j2

\* C2: every change of a job's status is pending -> processing,
\* processing -> completed or processing -> failed.
C2_StatusOneDirectional ==
  [][\A j \in DOMAIN db :
       db'[j].status # db[j].status =>
         <<db[j].status, db'[j].status>> \in
           {<<"pending", "processing">>, <<"processing", "completed">>,
            <<"processing", "failed">>}]_vars

\* C3: no two pipeline invocations work on the same job id at the same time
\* (counting only invocations that have not reached their finally clause).
C3_OneWorkerPerJob ==
  \A p1, p2 \in DOMAIN runs :
    (Working(p1) /\ Working(p2) /\ runs[p1].job = runs[p2].job) => p1 = p2

\* C4: the number of pipelines executing at the same time never exceeds
\* max_concurrent_jobs.
C4_ConcurrencyCap ==
  Cardinality({p \in DOMAIN runs : Executing(p)}) <= settings.max_concurrent_jobs

\* C5: a completed job has non-null text and non-null completed_at.
C5_CompletedHasText ==
  \A j \in DOMAIN db :
    db[j].status = "completed" =>
      (db[j].text # None /\ db[j].completed_at # None)

\* C5 witness: a job completed from the cache next to one completed by the
\* pipeline.
C5_Witness ==
  \E j1, j2 \in DOMAIN db :
    /\ db[j1].status = "completed" /\ db[j1].phase = None
    /\ db[j2].status = "completed" /\ db[j2].phase = Some("complete")

\* C6: a failed job has non-null error and null text, and no job has both
\* text and error.
C6_FailedHasNoText ==
  \A j \in DOMAIN db :
    /\ db[j].status = "failed" => (db[j].error # None /\ db[j].text = None)
    /\ ~(db[j].text # None /\ db[j].error # None)

C8_CacheHitCompletesJob ==
  [][Len(db') = Len(db) + 1 =>
       LET job == db'[Len(db')]
           key == job.url \o <<":">> \o job.model_requested
       IN key \in DOMAIN cache =>
            /\ job.status = "completed"
            /\ job.processing_time_ms = Some(0)
            /\ job.text = Some(cache[key].text)
            /\ ret'.val = "job"
            /\ UNCHANGED <<runs, running, transcribed>>]_vars

\* C8 witness: a job created from the cached "hello world" entry, no run for it.
C8_Witness ==
  \E j \in DOMAIN db :
    /\ db[j].url = UVideo /\ db[j].status = "completed"
    /\ db[j].text = Some("hello world")
    /\ db[j].processing_time_ms = Some(0)
    /\ \A p \in DOMAIN runs : runs[p].job # j

\* C9: a retry_job on an unknown job or on a job that is not failed returns
\* None, starts no reset and changes no job, run or _running_jobs map.
C9_RetryNoOp ==
  [][/\ Len(retries') > Len(retries) =>
          LET j == retries'[Len(retries')].job IN
          j \in DOMAIN db /\ db[j].status = "failed"
     /\ (ret' # ret /\ ret' = [op |-> "retry_job", val |-> "None"]) =>
          UNCHANGED <<db, runs, running, retries, cache, transcribed>>]_vars

\* C9 witness: retry_job returned None while a job that is not failed exists.
C9_Witness ==
  /\ ret = [op |-> "retry_job", val |-> "None"]
  /\ \E j \in DOMAIN db : db[j].status \in {"pending", "processing", "completed"}

C11_TerminalJobsFrozen ==
  [][\A j \in DOMAIN db :
       db[j].status \in {"completed", "failed"} => db'[j] = db[j]]_vars

\* C12: a run in which a stage has failed executes no further stage (no
\* backend call, no cache write, no completion), and the call that handles
\* the failure leaves the job failed.
C12_FailureHalts ==
  [][\A p \in DOMAIN runs :
       (runs[p].pc = "failing" /\ runs'[p] # runs[p]) =>
         /\ runs'[p].pc \in {"failing", "finally"}
         /\ cache' = cache
         /\ transcribed' = transcribed
         /\ db'[Job(p)].status # "completed" \/ db[Job(p)].status = "completed"
         /\ runs'[p].pc = "finally" => db'[Job(p)].status = "failed"]_vars

\* C13: the step with which a run whose stages all succeeded returns leaves
\* the job completed, in phase complete, with progress 100 and with
\* completed_at and processing_time_ms set.
C13_SuccessCompletes ==
  [][\A p \in DOMAIN runs :
       (runs[p].pc = "complete" /\ runs'[p].pc = "finally") =>
         LET job == db'[Job(p)] IN
         /\ job.status = "completed"
         /\ job.phase = Some("complete")
         /\ job.progress = 100
         /\ job.completed_at # None
         /\ job.processing_time_ms # None]_vars

\* C13 witness: a run went through every stage and is about to return, its
\* job completed by it.
C13_Witness ==
  \E p \in DOMAIN runs :
    /\ runs[p].pc = "finally" /\ runs[p].err = None /\ HasObj(p)
    /\ Obj(p).status = "completed" /\ Obj(p).text # None
    /\ db[Job(p)].status = "completed" /\ db[Job(p)].progress = 100

\* C14: a stream of job updates that has been opened eventually ends.
C14_StreamTerminates == (stream.st = "open") ~> (stream.st = "closed")

NoRun(j) == \A p \in DOMAIN runs : runs[p].job # j

C16_RetryAdvancesPending ==
  [][\A s \in RequestSvc, j \in DOMAIN db :
       (/\ db[j].status = "pending" /\ NoRun(j)
        /\ Cardinality(running[s]) < settings.max_concurrent_jobs
        /\ retry_job(s, j))
       => (/\ Len(retries') = Len(retries) + 1
           /\ retries'[Len(retries')].job = j)]_vars

\* C17: create_job with the url that has neither scheme nor host raises
\* ValueError and changes nothing: no row, no cache entry, no pipeline, no
\* _running_jobs entry; and no row ever carries that url.
C17_UnsupportedUrlRejected ==
  [][/\ \A s \in RequestSvc, model \in Models :
          create_job(s, UBad, model, TRUE) =>
            /\ ret' = [op |-> "create_job", val |-> "ValueError"]
            /\ UNCHANGED <<db, cache, runs, running, retries, transcribed,
                           budget>>
     /\ \A j \in DOMAIN db' : db'[j].url # UBad]_vars

\* C17 witness: create_job has raised ValueError while other jobs exist.
C17_Witness ==
  /\ ret = [op |-> "create_job", val |-> "ValueError"]
  /\ db # <<>>

\* C18: a run that has marked its job failed for want of a backend has not
\* downloaded the audio of that job.
C18_NoBackendNoDownload ==
  \A p \in DOMAIN runs :
    (/\ runs[p].pc = "finally"
     /\ db[Job(p)].status = "failed"
     /\ db[Job(p)].error = Some(<<"No transcription backend available">>))
    => ~runs[p].audio

\* C19: the handling of a condition a run has raised leaves the job failed
\* with an error that is the wrapped message of that condition, and with
\* text None when the condition is the download stage's policy violation.
C19_FailureKeepsMessage ==
  [][\A p \in DOMAIN runs :
       (runs[p].pc = "failing" /\ runs'[p] # runs[p]) =>
         LET job == db'[Job(p)]
             msg == runs[p].err[1]
         IN
         /\ job.status = "failed"
         /\ job.error = Some(msg)
         /\ msg[Len(msg)] = PolicyError => job.text = None]_vars

\* C20: a run that has loaded its job reaches its finally clause with no
\* exception left to propagate and with the job completed or failed.
C20_FailuresCaught ==
  [][\A p \in DOMAIN runs :
       (runs[p].pc \notin {"new", "finally"} /\ runs'[p].pc = "finally") =>
         /\ ~runs'[p].escaped
         /\ db'[Job(p)].status \in Terminal]_vars

\* C21: a step of a pipeline run or of a retry changes no row but the one
\* of the job it was started for, and no step changes two rows.
C21_OtherJobsUntouched ==
  [][\A k \in DOMAIN db :
       db'[k] # db[k] =>
         /\ \A k2 \in DOMAIN db : db'[k2] # db[k2] => k2 = k
         /\ \/ \E p \in DOMAIN runs : runs'[p] # runs[p] /\ runs[p].job = k
            \/ \E r \in DOMAIN retries :
                 retries' = RemoveAt(retries, r) /\ retries[r].job = k]_vars

\* C21 witness: a job has failed while another job is still being processed,
\* its row as its own run wrote it.
C21_Witness ==
  \E j, k \in DOMAIN db :
    /\ j # k
    /\ db[j].status = "failed"
    /\ db[k].status = "processing" /\ db[k].error = None
    /\ \E p \in DOMAIN runs : runs[p].job = k /\ HasObj(p) /\ Obj(p) = db[k]

\* C22: when the cache-store stage of a run leaves the cache as it was (the
\* write raised, or was skipped) and the commit that follows succeeds, the
\* run goes on to its completing step with the job still processing, its
\* text kept and no error set.
C22_CacheFailureHarmless ==
  [][\A p \in DOMAIN runs :
       (/\ runs[p].pc = "store" /\ runs'[p] # runs[p]
        /\ cache' = cache /\ budget' = budget)
       => /\ runs'[p].pc = "complete"
          /\ runs'[p].err = runs[p].err
          /\ runs'[p].obj[1].status = "processing"
          /\ runs'[p].obj[1].text = Obj(p).text /\ Obj(p).text # None
          /\ runs'[p].obj[1].error = Obj(p).error
          /\ db'[Job(p)].text = db[Job(p)].text
          /\ db'[Job(p)].error = db[Job(p)].error
          /\ db'[Job(p)].status = db[Job(p)].status]_vars

\* C22 witness: a job completed by its pipeline although the non-empty
\* cache received no entry for it.
C22_Witness ==
  \E j \in DOMAIN db :
    /\ db[j].status = "completed" /\ db[j].phase = Some("complete")
    /\ db[j].text # None /\ db[j].error = None
    /\ DOMAIN cache # {}
    /\ _generate_cache_key(db[j].url, db[j].model_requested) \notin DOMAIN cache

\* C23: a job in status failed leaves that status only in the commit of an
\* explicit retry_job call for it; no other step moves a failed job back to
\* pending or processing.
C23_FailedLeftOnlyByRetry ==
  [][\A j \in DOMAIN db :
       (db[j].status = "failed" /\ db'[j].status # "failed")
       => \E r \in DOMAIN retries :
            /\ retries[r].job = j
            /\ retries' = RemoveAt(retries, r)
            /\ db'[j].status = "pending"]_vars

\* C24: a pipeline run invokes transcribe() on at most one backend, and a
\* run whose transcribe() call failed leaves its failure handling with the
\* job in status failed.
C24_NoFallbackJobFails ==
  [][\A p \in DOMAIN runs :
       /\ Len(runs'[p].calls) <= 1
       /\ (/\ runs[p].calls # <<>> /\ runs[p].calls[1].result = BackendError
           /\ runs[p].pc = "failing" /\ runs'[p].pc = "finally")
          => db'[Job(p)].status = "failed"]_vars

\* C25: get_best_backend() answers with the registered backend that is
\* available and has the lowest priority number, and with None when no
\* registered backend is available; registry mlx (5), whisper_cpp (10),
\* openai (50) with whisper_cpp unavailable gives mlx.
C25_BestBackend ==
  [][GetBestBackend =>
       LET able == Registered(factory') \cap available IN
       /\ able = {} => ret'.val = None
       /\ able # {} =>
            \E b \in able :
              /\ ret'.val = Some(b)
              /\ \A c \in able : get_priority(b) <= get_priority(c)
       /\ get_best_backend(<<"mlx", "whisper_cpp", "openai">>,
                           {"mlx", "openai"}) = Some("mlx")
       /\ <<get_priority("mlx"), get_priority("whisper_cpp"),
            get_priority("openai")>> = <<5, 10, 50>>]_vars

\* C25 witness: the registry holds mlx, whisper_cpp and openai, whisper_cpp
\* has become unavailable, and get_best_backend() has answered mlx.
C25_Witness ==
  /\ ret.op = "get_best_backend"
  /\ factory._backends = <<"mlx", "whisper_cpp", "openai">>
  /\ ret.at = {"mlx", "openai"}
  /\ ret.val = Some("mlx")

\* C26: get_backend_for_model(model) answers with the registered backend of
\* lowest priority number among those that are available and support the
\* model, and with None when there is none.
C26_BackendForModel ==
  [][\A model \in ModelNames :
       (GetBackendForModel /\ ret'.arg = model) =>
         LET able == {b \in Registered(factory') \cap available :
                        supports_model(b, model)}
         IN
         /\ able = {} => ret'.val = None
         /\ able # {} =>
              \E b \in able :
                /\ ret'.val = Some(b)
                /\ \A c \in able : get_priority(b) <= get_priority(c)]_vars

\* C26 witness: whisper_cpp is registered and available but does not know
\* the model, and the call has answered openai.
C26_Witness ==
  /\ ret.op = "get_backend_for_model" /\ ret.arg = "large-v3"
  /\ "whisper_cpp" \in Registered(factory) \cap ret.at
  /\ ret.val = Some("openai")

\* helper of C27: the backends an answer of the factory names
Answered(r) ==
  CASE r.op \in {"get_best_backend", "get_backend_for_model"} ->
         {r.val[i] : i \in DOMAIN r.val}
    [] r.op = "get_available_backends" -> {r.val[i] : i \in DOMAIN r.val}
    [] OTHER -> {}

\* C27: once the registry is initialized it never changes, whatever the
\* backends answer later and however often initialize() is called, and no
\* answer of the factory names a backend outside the registry.
C27_ExcludedForGood ==
  [][/\ factory._initialized => factory' = factory
     /\ Answered(ret') \subseteq Registered(factory')]_vars

\* C27 witness: whisper_cpp was not registered, it is available now, and
\* get_best_backend() has answered None.
C27_Witness ==
  /\ ret.op = "get_best_backend" /\ ret.val = None
  /\ factory._initialized /\ "whisper_cpp" \notin Registered(factory)
  /\ "whisper_cpp" \in ret.at

\* C28: get_transcription returns an entry only if it is there and has a
\* non-empty text, and an entry that is there but malformed (no dict, no
\* text, empty text) is deleted and the call answers None.
C28_GetValidOrMiss ==
  [][\A url \in CacheURLs, model \in CacheModels :
       CacheGet(url, model) =>
         LET key == _generate_cache_key(url, model)
             valid == /\ key \in DOMAIN cache
                      /\ isinstance_dict(cache[key])
                      /\ "text" \in DOMAIN cache[key]
                      /\ cache[key].text # ""
         IN
         /\ ret'.val # None => valid
         /\ (key \in DOMAIN cache /\ ~valid) =>
              (key \notin DOMAIN cache' /\ ret'.val = None)]_vars

MostRecent(fs) ==
  CHOOSE k \in DOMAIN fs : \A j \in DOMAIN fs : fs[j].mtime <= fs[k].mtime

\* C30: eviction does not remove the most recently accessed file while an
\* older file stays and the directory, at that moment, is over the limit;
\* and a read that hits makes the file the most recently accessed one.
C30_EvictsLeastRecent ==
  [][/\ (ManageCacheSize /\ DOMAIN files # {}
          /\ MostRecent(files) \notin DOMAIN files')
        => ~(/\ DOMAIN files' # {}
             /\ TotalSize(files') + files[MostRecent(files)].size
                  > max_cache_size_gb)
     /\ \A k \in DOMAIN files :
          GetFromCache(k) => MostRecent(files') = k]_vars

\* C31: when a pipeline run has returned, no file its download stage
\* produced is left in temp_dir.
C31_TempFilesDeleted ==
  \A p \in DOMAIN runs : runs[p].pc = "done" => ~runs[p].tmp

\* C32: a job whose download or transcription stage does not return is
\* eventually moved to failed (or completed), it does not stay processing.
C32_TimeoutFailsJob ==
  \A p \in RunIds :
    (p \in DOMAIN runs /\ runs[p].pc = "hung")
      ~> (p \in DOMAIN runs /\ db[Job(p)].status \in Terminal)

\* C33: whisper.load_model is called at most once for every model name,
\* however many jobs use the model and whether or not they overlap.
C33_ModelLoadedOnce ==
  \A m \in LoadModels : Loads(m) <= 1

\* C34: a job carries a text or a title only when its status is completed.
C34_ResultsOnlyOnCompletion ==
  \A j \in DOMAIN db :
    (db[j].text # None \/ db[j].title # None) => db[j].status = "completed"

\* helpers of C35: the position of a stage in _process_job, and the phase
\* the job object of a run is in at that stage
StageNo(pc) ==
  CASE pc = "new" -> 0
    [] pc = "loaded" -> 1
    [] pc = "download" -> 2
    [] pc = "select" -> 3
    [] pc = "transcribe" -> 4
    [] pc = "store" -> 5
    [] pc = "complete" -> 6
    [] OTHER -> 7
StagePhase(pc) ==
  CASE pc \in {"download", "select"} -> Some("downloading")
    [] pc \in {"transcribe", "store"} -> Some("transcribing")
    [] pc = "complete" -> Some("finalizing")
    [] OTHER -> None

\* C35: a run moves through download, backend selection, transcribe, cache
\* store and finalize one after the other and never back; the phase of its
\* job object is the one of the stage it is in, so the phases form a prefix
\* of downloading, transcribing, finalizing, complete; and a backend is
\* selected only after download_audio has returned.
C35_StagesSequential ==
  [][\A p \in DOMAIN runs :
       /\ (runs'[p].pc # runs[p].pc /\ StageNo(runs'[p].pc) < 7)
            => StageNo(runs'[p].pc) = StageNo(runs[p].pc) + 1
       /\ StagePhase(runs'[p].pc) # None
            => /\ runs'[p].obj # None
               /\ runs'[p].obj[1].phase = StagePhase(runs'[p].pc)
       /\ StageNo(runs'[p].pc) \in 3..6 => runs'[p].audio
       /\ runs'[p].backend # runs[p].backend
            => runs[p].pc = "select" /\ runs[p].audio
       /\ (runs[p].pc = "complete" /\ runs'[p].pc = "finally"
             /\ runs'[p].err = None)
            => runs'[p].obj[1].phase = Some("complete")]_vars

\* C35 witness: a run that went through every stage: it downloaded, selected
\* a backend, called it once and has set the phase complete.
C35_Witness ==
  \E p \in DOMAIN runs :
    /\ runs[p].pc = "finally" /\ runs[p].err = None /\ HasObj(p)
    /\ runs[p].audio /\ runs[p].backend # None /\ Len(runs[p].calls) = 1
    /\ Obj(p).phase = Some("complete")

\* C36: when the cache-store stage of a run is passed with a cache that is
\* enabled and takes the write, the cache holds an entry under the key of the
\* job's url and model whose text is the job's text, before the run goes on
\* to mark the job completed.
C36_CompletionStoresResult ==
  [][\A p \in DOMAIN runs :
       (settings.cache_enabled /\ process_job_finalize(p, TRUE, TRUE))
         => LET key == _generate_cache_key(Obj(p).url, Obj(p).model_requested)
            IN /\ key \in DOMAIN cache'
               /\ cache'[key].text = Obj(p).text[1]]_vars

\* C37: when the pipeline of a run ends, the job's id is no longer in the
\* _running_jobs map of the service instance that scheduled the run.
C37_SchedulerSlotReleased ==
  [][\A p \in DOMAIN runs :
       (runs[p].pc = "finally" /\ runs'[p].pc = "done")
         => Job(p) \notin running'[runs[p].svc]]_vars

\* C38: every job whose status is completed has progress 100 and phase
\* complete, whether the pipeline completed it or create_job built it from a
\* cached result.
C38_CompletedIsFullProgress ==
  \A j \in DOMAIN db :
    db[j].status = "completed"
      => db[j].progress = 100 /\ db[j].phase = Some("complete")

\* C39: get_transcription(url, model) returns only an entry that
\* store_transcription wrote for that same url and that same model, also
\* when the url or the model holds a ':'.
C39_KeySeparatesPairs ==
  (ret.op = "get_transcription" /\ ret.val # None)
    => <<ret.val[1].url, ret.val[1].model>> = ret.arg

\* C40: whenever no call on a factory is in flight and the factory is
\* initialized, its registry holds each backend at most once and in
\* ascending order of priority, also when calls entered initialize() while
\* another call was suspended in it.
C40_RegistryUniqueSorted ==
  (tasks = NoTasks /\ factory._initialized)
    => /\ \A i, k \in DOMAIN factory._backends :
            i # k => factory._backends[i] # factory._backends[k]
       /\ \A i, k \in DOMAIN factory._backends :
            i < k => get_priority(factory._backends[i])
                       <= get_priority(factory._backends[k])

====
